---- MODULE Spec2Model ----
(***************************************************************************)
(* Model of the pgmigrate migration engine (src/src/pgmigrate).            *)
(*                                                                         *)
(* Each operator invocation (status, up, down, repair, retry,              *)
(* reset-failed) is one process: cli.main builds a fresh MigrationRunner,  *)
(* which loads the migration definitions (and their checksums) from disk,  *)
(* opens its own database session and runs one engine operation.           *)
(* Processes share the bookkeeping table, the schema the scripts change,   *)
(* the advisory lock and the migration files on disk.                      *)
(*                                                                         *)
(* An atomic step of the model is one interaction with shared state: the   *)
(* snapshot read (fetch_states), one committed write, the lock call, one   *)
(* script transaction.  Local computation (loading the definitions,        *)
(* planning, the confirmation gate) is folded into the step of the read    *)
(* it belongs to.                                                          *)
(***************************************************************************)
EXTENDS Integers, Sequences, FiniteSets, TLC

\* ---------------------------------------------------------------- bounds
NumMig == 2        \* migration directories on disk, ids 1..NumMig in order
NumProcs == 2      \* operator processes that may run at the same time
MaxOps == 3        \* engine operations started in one behaviour
MaxEdits == 1      \* edits of up.sql files made by operators
NumFiles == 3      \* sql files that @include directives may name
MaxIncludes == 2   \* @include lines in one sql file

Mig == 1..NumMig
Procs == 1..NumProcs
NoTarget == 0              \* target=None (up without --to)
UnknownId == NumMig + 1    \* an id that names no migration directory
LatestArg == NumMig + 2    \* verify --latest (no id is looked at)
Ids == Mig \cup {UnknownId}

\* ---------------------------------------------------------------- state
VARIABLES
    rows,      \* bookkeeping table: migration id -> row (status "absent": no row)
    upLive,    \* migrations whose up.sql is committed more recently than any down.sql
    diskSum,   \* checksum of each up.sql as it is on disk now
    holds,     \* holds[p]: the session of process p holds the advisory lock
    proc,      \* proc[p]: the local state of process p (see Idle)
    last,      \* the operation that ended in the last step, and how
    ops,       \* operations started so far
    env,       \* meta.yaml of the definitions and profile.allow_tags (see FreeEnv)
    hist       \* operations that have ended, in order (kept when env.log)

vars == <<rows, upLive, diskSum, holds, proc, last, ops, env, hist>>

\* A process that runs no operation.  Fields of a running process:
\*   pc        position in the operation
\*   kind      the command (apply, rollback, repair, retry, reset_failed)
\*   arg       --to of up / down, --id of retry / reset-failed
\*   sums      MigrationDefinition.checksum of each migration, as loaded
\*   plan      migrations still to execute, in execution order
\*   vok       verify_ok local of _apply_single
\*   skip      MigrationRunner._skip_next_confirmation (kept between the
\*             operations run on the same engine)
\*   prevSkip  previous_skip local of retry
\*   conf      the branch of _confirm_action the operation passed the gate by
\*             ("any" where the profile is left open)
\*   res       the error the executor raised ("none": none so far)
\*   wrote     the process has written the bookkeeping table in this operation
\*   rivalRan  another apply that ran at the same time has executed a migration
Idle == [pc |-> "idle", kind |-> "none", arg |-> 0, sums |-> [m \in Mig |-> 0],
         plan |-> <<>>, vok |-> "null", skip |-> FALSE, prevSkip |-> FALSE,
         conf |-> "none", res |-> "none", wrote |-> FALSE, rivalRan |-> FALSE]

NoLast == [proc |-> 0, kind |-> "none", arg |-> 0, res |-> "none", wrote |-> FALSE,
           out |-> <<>>]

\* ---------------------------------------------------------------- store (db.py)
NoRow == [status |-> "absent", checksum |-> 0, applied_at |-> "null",
          applied_by |-> "null", execution_ms |-> "null", verify_ok |-> "null",
          log_ref |-> "null"]

Exists(tbl, m) == tbl[m].status # "absent"

\* INSERT ... ON CONFLICT (migration_id) DO UPDATE: every column replaced.
SetStatus(tbl, m, checksum, status, applied_by, applied_at, execution_ms, verify_ok, log_ref) ==
    [tbl EXCEPT ![m] = [status |-> status, checksum |-> checksum,
                        applied_at |-> applied_at, applied_by |-> applied_by,
                        execution_ms |-> execution_ms, verify_ok |-> verify_ok,
                        log_ref |-> log_ref]]

\* UPDATE ... SET checksum; rowcount 0 raises DatabaseError (caller checks Exists).
RepairChecksumResets(tbl, m, checksum) ==
    [tbl EXCEPT ![m].checksum = checksum, ![m].status = "reverted"]

RepairChecksum(tbl, m, checksum) ==
    [tbl EXCEPT ![m].checksum = checksum]

\* UPDATE ... SET status, applied_at, applied_by, execution_ms, verify_ok.
UpdateStatusFieldsDrops(tbl, m, status, applied_at, applied_by, execution_ms, verify_ok) ==
    [tbl EXCEPT ![m] = NoRow]

UpdateStatusFields(tbl, m, status, applied_at, applied_by, execution_ms, verify_ok) ==
    [tbl EXCEPT ![m].status = status, ![m].applied_at = applied_at,
                ![m].applied_by = applied_by, ![m].execution_ms = execution_ms,
                ![m].verify_ok = verify_ok]

\* delete_state(schema, migration_id): remove the row.
DeleteState(tbl, m) == [tbl EXCEPT ![m] = NoRow]

\* pg_try_advisory_lock: granted unless another session holds the key.
PgTryAdvisoryLockAlways(h, p) == TRUE

PgTryAdvisoryLock(h, p) == \A q \in Procs \ {p} : ~h[q]

\* ---------------------------------------------------------------- planner (runner.py)
AppliedIds(states) == {m \in Mig : states[m].status = "applied"}

SeqIds(s) == {s[i] : i \in 1..Len(s)}

\* _validate_dependencies: a required id must be applied or anywhere in the plan.
DependenciesOk(states, pending, requires) ==
    \A i \in 1..Len(pending) :
        \A r \in requires[pending[i]] :
            r \in AppliedIds(states) \/ r \in SeqIds(pending)

\* The scan of _pending_for_apply from definition m on, pending so far in acc.
ApplyScanReversed(m, acc, states, cks, target, tagBad) ==
    LET want == {x \in Mig : /\ x >= m
                             /\ target = NoTarget \/ x <= target
                             /\ states[x].status # "applied"}
    IN [err |-> "none",
        plan |-> SelectSeq([i \in 1..NumMig |-> NumMig + 1 - i], LAMBDA x : x \in want)]

RECURSIVE ApplyScanFailedPending(_, _, _, _, _, _)
ApplyScanFailedPending(m, acc, states, cks, target, tagBad) ==
    IF m > NumMig \/ (target # NoTarget /\ m > target)
    THEN [err |-> "none", plan |-> acc]
    ELSE IF Exists(states, m) /\ states[m].checksum # cks[m]
    THEN [err |-> "ChecksumMismatch", plan |-> <<>>]
    ELSE IF states[m].status = "running"
    THEN [err |-> "InProgress", plan |-> <<>>]
    ELSE IF states[m].status = "applied"
    THEN ApplyScanFailedPending(m + 1, acc, states, cks, target, tagBad)
    ELSE IF m \in tagBad
    THEN [err |-> "TagNotAllowed", plan |-> <<>>]
    ELSE ApplyScanFailedPending(m + 1, Append(acc, m), states, cks, target, tagBad)

RECURSIVE ApplyScan(_, _, _, _, _, _)
ApplyScan(m, acc, states, cks, target, tagBad) ==
    IF m > NumMig \/ (target # NoTarget /\ m > target)
    THEN [err |-> "none", plan |-> acc]
    ELSE IF Exists(states, m) /\ states[m].checksum # cks[m]
    THEN [err |-> "ChecksumMismatch", plan |-> <<>>]
    ELSE IF states[m].status = "running"
    THEN [err |-> "InProgress", plan |-> <<>>]
    ELSE IF states[m].status = "failed"
    THEN [err |-> "PreviousFailure", plan |-> <<>>]
    ELSE IF states[m].status = "applied"
    THEN ApplyScan(m + 1, acc, states, cks, target, tagBad)
    ELSE IF m \in tagBad
    THEN [err |-> "TagNotAllowed", plan |-> <<>>]
    ELSE ApplyScan(m + 1, Append(acc, m), states, cks, target, tagBad)

PendingForApply(states, cks, target, tagBad, requires) ==
    LET r == ApplyScan(1, <<>>, states, cks, target, tagBad) IN
    IF r.err # "none" THEN r
    ELSE IF target # NoTarget /\ (r.plan = <<>> \/ r.plan[Len(r.plan)] # target)
    THEN [err |-> "TargetUnreachable", plan |-> <<>>]
    ELSE IF ~DependenciesOk(states, r.plan, requires)
    THEN [err |-> "MissingDependency", plan |-> <<>>]
    ELSE r

\* The descending scan of _pending_for_down from definition m down.
DownScanNoSkip(m, acc, states, target) ==
    IF target \in Mig /\ states[target].status = "applied"
    THEN [seen |-> TRUE,
          plan |-> SelectSeq([i \in 1..NumMig |-> NumMig + 1 - i], LAMBDA x : x >= target)]
    ELSE [seen |-> FALSE, plan |-> <<>>]

RECURSIVE DownScan(_, _, _, _)
DownScan(m, acc, states, target) ==
    IF m < 1 THEN [seen |-> FALSE, plan |-> acc]
    ELSE IF states[m].status # "applied"
    THEN DownScan(m - 1, acc, states, target)
    ELSE IF m = target THEN [seen |-> TRUE, plan |-> Append(acc, m)]
    ELSE DownScan(m - 1, Append(acc, m), states, target)

\* First failure of the reversibility and tag loop over the collected list.
DownGateTagsOnly(pending, i, irreversible, tagBad) ==
    IF \E j \in i..Len(pending) : pending[j] \in tagBad THEN "TagNotAllowed" ELSE "none"

RECURSIVE DownGate(_, _, _, _)
DownGate(pending, i, irreversible, tagBad) ==
    IF i > Len(pending) THEN "none"
    ELSE IF pending[i] \in irreversible THEN "Irreversible"
    ELSE IF pending[i] \in tagBad THEN "TagNotAllowed"
    ELSE DownGate(pending, i + 1, irreversible, tagBad)

PendingForDown(states, target, irreversible, tagBad) ==
    LET r == DownScan(NumMig, <<>>, states, target) IN
    IF ~r.seen THEN [err |-> "TargetNotApplied", plan |-> <<>>]
    ELSE LET g == DownGate(r.plan, 1, irreversible, tagBad) IN
         IF g # "none" THEN [err |-> g, plan |-> <<>>]
         ELSE [err |-> "none", plan |-> r.plan]

\* ---------------------------------------------------------------- confirmation gate
\* _confirm_action.  answer: what the operator types at the prompt
\* ("schema": the schema name, "yes": y/yes, "other": anything else).
\* how: the branch that let the action pass ("skip": the flag, "flag":
\* --confirm-prod, "unattended": no prompt, "typed": the schema name typed,
\* "yes": y / yes typed).
ConfirmActionNoProd(skipNext, confirm_prod, confirm_override, non_interactive, interactive, answer) ==
    IF skipNext THEN [err |-> "none", skip |-> FALSE, how |-> "skip"]
    ELSE IF non_interactive \/ ~interactive
    THEN [err |-> "none", skip |-> skipNext, how |-> "unattended"]
    ELSE IF answer # "yes"
         THEN [err |-> "UserAborted", skip |-> skipNext, how |-> "none"]
         ELSE [err |-> "none", skip |-> skipNext, how |-> "yes"]

ConfirmAction(skipNext, confirm_prod, confirm_override, non_interactive, interactive, answer) ==
    IF skipNext THEN [err |-> "none", skip |-> FALSE, how |-> "skip"]
    ELSE IF confirm_prod /\ confirm_override
    THEN [err |-> "none", skip |-> skipNext, how |-> "flag"]
    ELSE IF non_interactive \/ ~interactive
    THEN IF confirm_prod /\ ~confirm_override
         THEN [err |-> "ProdConfirmationRequired", skip |-> skipNext, how |-> "none"]
         ELSE [err |-> "none", skip |-> skipNext, how |-> "unattended"]
    ELSE IF confirm_prod
    THEN IF answer # "schema"
         THEN [err |-> "ConfirmationRejected", skip |-> skipNext, how |-> "none"]
         ELSE [err |-> "none", skip |-> skipNext, how |-> "typed"]
    ELSE IF answer # "yes"
         THEN [err |-> "UserAborted", skip |-> skipNext, how |-> "none"]
         ELSE [err |-> "none", skip |-> skipNext, how |-> "yes"]

Answers == {"schema", "yes", "other"}

\* Outcomes of the gate over every profile, flag and answer, given the skip flag.
GateOutcomesOf(skipNext) ==
    {[ConfirmAction(skipNext, cp, co, ni, ia, an) EXCEPT !.how = "any"] :
        cp \in BOOLEAN, co \in BOOLEAN, ni \in BOOLEAN, ia \in BOOLEAN, an \in Answers}

\* The same for a profile with confirm_prod set, the branch taken kept.
ProdGateOutcomesOf(skipNext) ==
    {ConfirmAction(skipNext, TRUE, co, ni, ia, an) :
        co \in BOOLEAN, ni \in BOOLEAN, ia \in BOOLEAN, an \in Answers}

ProdGateOutcomesSkip == ProdGateOutcomesOf(TRUE)

ProdGateOutcomesNoSkip == ProdGateOutcomesOf(FALSE)

GateOutcomesSkip == GateOutcomesOf(TRUE)

GateOutcomesNoSkip == GateOutcomesOf(FALSE)

GateOutcomes(skipNext) ==
    IF env.prod
    THEN IF skipNext THEN ProdGateOutcomesSkip ELSE ProdGateOutcomesNoSkip
    ELSE IF skipNext THEN GateOutcomesSkip ELSE GateOutcomesNoSkip

\* ---------------------------------------------------------------- executor (runner.py)
Dir(k) == IF k = "rollback" THEN "down" ELSE "up"

ScriptOutcomes(d) ==
    IF d = "up"
    THEN {"ok", "pre_hook_failed", "sql_failed", "verify_failed", "verify_failed_silent"}
    ELSE {"ok", "pre_hook_failed", "sql_failed"}

ExecErrors == {"pre_hook_failed", "sql_failed", "verify_failed", "post_hook_failed",
               "IncludeCycle", "IncludeNotFound"}

\* ---------------------------------------------------------------- include preprocessor
\* Sql files by canonical absolute path: file 1 is the up.sql of migration 1,
\* the others are shared files; every other script has no @include line.
Files == 1..NumFiles
Missing == 0               \* a path at which there is no file
NoFile == NumFiles + 1     \* a script without @include lines

\* The @include lines of a file, in order, each by the path it resolves to.
IncludeLines(n) == UNION {[1..k -> Files \cup {Missing}] : k \in 0..n}

NoIncludes == [f \in Files |-> <<>>]

RootOf(m, d) == IF m = 1 /\ d = "up" THEN 1 ELSE NoFile

\* _process_sql_includes(sql_path, log, processed_files): processed_files is
\* one set shared by the whole recursion, every file entered is added and
\* none is removed.  text: the files whose bodies make up the result, in
\* order.  ExpandLines is the for loop over the lines.
RECURSIVE ProcessSqlIncludes(_, _, _)
RECURSIVE ExpandLines(_, _, _, _)
ProcessSqlIncludes(sql_path, processed_files, inc) ==
    IF sql_path \in processed_files
    THEN [err |-> "IncludeCycle", processed |-> processed_files, text |-> <<>>]
    ELSE ExpandLines(inc[sql_path], processed_files \cup {sql_path}, inc, <<sql_path>>)

ExpandLines(lines, processed_files, inc, result_lines) ==
    IF lines = <<>>
    THEN [err |-> "none", processed |-> processed_files, text |-> result_lines]
    ELSE IF Head(lines) = Missing
    THEN [err |-> "IncludeNotFound", processed |-> processed_files, text |-> <<>>]
    ELSE LET included == ProcessSqlIncludes(Head(lines), processed_files, inc) IN
         IF included.err # "none" THEN included
         ELSE ExpandLines(Tail(lines), included.processed, inc,
                          result_lines \o included.text)

\* _execute_sql of the script of migration m: the error of the expansion.
IncludeError(m, d, inc) ==
    IF RootOf(m, d) = NoFile THEN "none"
    ELSE ProcessSqlIncludes(RootOf(m, d), {}, inc).err

\* What pre_hooks / _execute_sql / _run_verify can do for migration m: when
\* the expansion fails, the pre-hooks have run and nothing is executed.
ExecOutcomes(m, d, inc) ==
    IF IncludeError(m, d, inc) = "none" THEN ScriptOutcomes(d)
    ELSE {"pre_hook_failed", IncludeError(m, d, inc)}

\* What the try block of _apply_single / _revert_single leaves committed of the
\* script: conn.commit() after a clean run commits it; the except handler's
\* conn.rollback() discards it; a verify error that is not re-raised (empty
\* message) has aborted the transaction, so the commit that follows rolls back.
ScriptCommitKeepsFailed(live, m, d, outcome) ==
    IF outcome \notin {"ok", "sql_failed"} THEN live
    ELSE IF d = "up" THEN live \cup {m} ELSE live \ {m}

ScriptCommit(live, m, d, outcome) ==
    IF outcome # "ok" THEN live
    ELSE IF d = "up" THEN live \cup {m} ELSE live \ {m}

\* The except handler: rollback, upsert status=failed, verify_ok=False, commit.
FailureAtomKeepsRunning(tbl, m, checksum) == tbl

FailureAtom(tbl, m, checksum) ==
    SetStatus(tbl, m, checksum, "failed", "set", "set", "set", "false", "set")

\* Where the for loop of apply / rollback goes after the executor raised.
AfterFailureContinues(rest) == IF rest = <<>> THEN "exit" ELSE "mark"

AfterFailure(rest) == "exit"

\* advisory_lock's finally (pg_advisory_unlock) and connect's finally
\* (conn.close(), which ends the session): is the lock still held afterwards?
HeldAfterExitOnlyOnSuccess(h, failed) == h /\ failed

HeldAfterExit(h, failed) == FALSE

\* The body of the with blocks is over (returned, or raised err): what is left
\* of the local state is the command, the error, whether it wrote, and the
\* part of the plan that was not reached.
Leaving(b, err) ==
    [Idle EXCEPT !.pc = "exit", !.kind = b.kind, !.res = err, !.wrote = b.wrote,
                 !.skip = b.skip, !.prevSkip = b.prevSkip,
                 !.rivalRan = b.rivalRan, !.plan = Tail(b.plan), !.arg = b.arg]

\* The executor raised err; next is the rest of the loop or the way out.
Raised(b, next, err) ==
    IF next = "mark"
    THEN [b EXCEPT !.pc = "mark", !.plan = Tail(@), !.vok = "null", !.res = err]
    ELSE Leaving(b, err)

\* ---------------------------------------------------------------- definitions on disk
\* Migrations whose tags the profile does not allow (or that are irreversible):
\* none or one, the planners stop at the first.
OneOrNone == {{}} \cup {{x} : x \in Mig}

\* requires of the loaded definitions: no edge, or one edge m -> r
\* (the dependency check fails iff some single edge fails).
RequiresChoices ==
    {[m \in Mig |-> {}]} \cup
    {[m \in Mig |-> IF m = e[1] THEN {e[2]} ELSE {}] : e \in Mig \X Ids}

\* The metadata every runner loads (load_migrations, resolve_profile):
\*   tagBad        migrations with meta.tags not within profile.allow_tags
\*   irreversible  migrations with meta.reversible = false or a blank down.sql
\*   requires      meta.requires of each migration
\* fixed = FALSE: the files may be edited between any two operations, each
\* runner loads whatever is there.  log: the history of operations is kept.
\* prod: profile.confirm_prod is set in the profile of every runner (FALSE:
\* the profile is left open).
\* includes: the @include lines of the sql files (all without in NoIncludes).
FreeEnv == [fixed |-> FALSE, log |-> FALSE, prod |-> FALSE, tagBad |-> {},
            irreversible |-> {}, requires |-> [m \in Mig |-> {}],
            includes |-> NoIncludes]

FixedEnvs ==
    {[fixed |-> TRUE, log |-> FALSE, prod |-> FALSE, tagBad |-> t, irreversible |-> i,
      requires |-> r, includes |-> NoIncludes] :
        t \in OneOrNone, i \in OneOrNone, r \in RequiresChoices}

TagChoicesNone == {{}}

TagChoices == IF env.fixed THEN {env.tagBad} ELSE OneOrNone

IrreversibleChoices == IF env.fixed THEN {env.irreversible} ELSE OneOrNone

RequiresLoaded == IF env.fixed THEN {env.requires} ELSE RequiresChoices

\* ---------------------------------------------------------------- initial state
Start ==
    /\ rows = [m \in Mig |-> NoRow]
    /\ upLive = {}
    /\ diskSum = [m \in Mig |-> 0]
    /\ holds = [p \in Procs |-> FALSE]
    /\ proc = [p \in Procs |-> Idle]
    /\ last = NoLast
    /\ ops = 0
    /\ hist = <<>>

Init == Start /\ env = FreeEnv

Active(p) == proc[p].pc # "idle"

\* retry's finally: self._skip_next_confirmation = previous_skip.
RetryFinallyKeeps(previous_skip, current) == current

RetryFinally(previous_skip, current) == previous_skip

\* The flag of the engine when the operation of local state b is over: as the
\* operation left it, and after the nested apply of retry what the finally
\* assigns.
SkipLeft(b) ==
    IF b.kind = "retry" /\ b.pc \notin {"idle", "retry_repair", "retry_reset"}
    THEN RetryFinally(b.prevSkip, b.skip)
    ELSE b.skip

\* The operation returns or raises to cli.main with result r and the process
\* ends; retry's finally has restored _skip_next_confirmation.
Returned(p, k, a, r, w, out) ==
    /\ proc' = [proc EXCEPT ![p] = [Idle EXCEPT !.skip = SkipLeft(proc[p])]]
    /\ last' = [proc |-> p, kind |-> k, arg |-> a, res |-> r, wrote |-> w, out |-> out]
    /\ hist' = IF env.log
               THEN Append(hist, [kind |-> k, arg |-> a,
                                  res |-> IF r = "ok" THEN "ok" ELSE "error"])
               ELSE hist
    /\ env' = env

Ended(p, k, a, r, w) == Returned(p, k, a, r, w, <<>>)

End(p, k, r, w) == Ended(p, k, proc[p].arg, r, w)

\* The step ends no operation.
Going ==
    /\ last' = NoLast
    /\ hist' = hist
    /\ env' = env

\* cli.main builds the runner: load_migrations reads the checksums from disk.
Fresh(k) == [Idle EXCEPT !.kind = k, !.sums = diskSum]

\* Operation k starts on the engine of process p, with the flag as the
\* engine's last operation left it.
Entered(p, k) == [Fresh(k) EXCEPT !.skip = proc[p].skip]

CanStart(p) == proc[p].pc = "idle" /\ ops < MaxOps

\* The part of apply() before the lock, on the snapshot states: planning
\* (_pending_for_apply), "nothing to do", the gate (_confirm_execution).
\* res "go": the operation goes on to take the lock with this plan.
\* r: what the planner returned; g: what the gate does when it is asked.
ApplyOutcome(r, skipNext, g) ==
    IF r.err # "none" THEN [res |-> r.err, plan |-> <<>>, skip |-> skipNext, how |-> "none"]
    ELSE IF r.plan = <<>>
    THEN [res |-> "ok", plan |-> <<>>, skip |-> skipNext, how |-> "none"]
    ELSE IF g.err # "none"
    THEN [res |-> g.err, plan |-> <<>>, skip |-> g.skip, how |-> "none"]
    ELSE [res |-> "go", plan |-> r.plan, skip |-> g.skip, how |-> g.how]

\* Every outcome of it over the tags and requires of the definitions and the
\* inputs of the gate.
ApplyOutcomes(states, cks, skipNext, target) ==
    LET planned == {PendingForApply(states, cks, target, tagBad, requires) :
                       tagBad \in TagChoices, requires \in RequiresLoaded}
    IN {ApplyOutcome(r, skipNext, g) : r \in planned, g \in GateOutcomes(skipNext)}

\* The same part of rollback(), with _pending_for_down.
RollbackOutcome(r, skipNext, g) ==
    IF r.err # "none" THEN [res |-> r.err, plan |-> <<>>, skip |-> skipNext, how |-> "none"]
    ELSE IF g.err # "none"
    THEN [res |-> g.err, plan |-> <<>>, skip |-> g.skip, how |-> "none"]
    ELSE [res |-> "go", plan |-> r.plan, skip |-> g.skip, how |-> g.how]

RollbackOutcomes(states, skipNext, target) ==
    LET planned == {PendingForDown(states, target, irreversible, tagBad) :
                       irreversible \in IrreversibleChoices, tagBad \in TagChoices}
    IN {RollbackOutcome(r, skipNext, g) : r \in planned, g \in GateOutcomes(skipNext)}

\* apply() or rollback() entered with local state b leaves its planning part
\* with outcome o.
Planned(p, b, o) ==
    IF o.res # "go" THEN Ended(p, b.kind, b.arg, o.res, b.wrote)
    ELSE /\ proc' = [proc EXCEPT ![p] =
                       [b EXCEPT !.pc = "lock", !.plan = o.plan, !.skip = o.skip,
                                 !.conf = IF o.how = "skip" THEN @ ELSE o.how]]
         /\ Going

\* up [--to target]: build the runner, _ensure, fetch_states, plan, confirm.
Apply(p) ==
    /\ CanStart(p)
    /\ \E target \in {NoTarget} \cup Ids :
        \E o \in ApplyOutcomes(rows, diskSum, proc[p].skip, target) :
            Planned(p, [Entered(p, "apply") EXCEPT !.arg = target], o)
    /\ ops' = ops + 1
    /\ UNCHANGED <<rows, upLive, diskSum, holds>>

\* down --to target: build the runner, _ensure, fetch_states, plan, confirm.
Rollback(p) ==
    /\ CanStart(p)
    /\ \E target \in Ids :
        \E o \in RollbackOutcomes(rows, proc[p].skip, target) :
            Planned(p, [Entered(p, "rollback") EXCEPT !.arg = target], o)
    /\ ops' = ops + 1
    /\ UNCHANGED <<rows, upLive, diskSum, holds>>

\* with db.advisory_lock(conn, lock_key): pg_try_advisory_lock, else raise.
TryLock(p) ==
    /\ proc[p].pc = "lock"
    /\ IF PgTryAdvisoryLock(holds, p)
       THEN /\ holds' = [holds EXCEPT ![p] = TRUE]
            /\ proc' = [proc EXCEPT ![p].pc = "mark"]
            /\ Going
       ELSE /\ End(p, proc[p].kind, "LockHeld", proc[p].wrote)
            /\ holds' = holds
    /\ UNCHANGED <<rows, upLive, diskSum, ops>>

\* The running marker: set_status(status="running") and conn.commit(), its
\* own transaction.
RunningMarkerWithScript(tbl, m, checksum) == tbl

RunningMarker(tbl, m, checksum) ==
    SetStatus(tbl, m, checksum, "running", "set", "set", "null", "null", "set")

\* _apply_single / _revert_single: upsert status=running, commit.
MarkRunning(p) ==
    /\ proc[p].pc = "mark"
    /\ LET m == Head(proc[p].plan) IN
        rows' = RunningMarker(rows, m, proc[p].sums[m])
    /\ proc' = [q \in Procs |->
          IF q = p THEN [proc[p] EXCEPT !.pc = "script", !.wrote = TRUE]
          ELSE IF Active(q) /\ proc[q].kind = "apply" /\ proc[p].kind = "apply"
          THEN [proc[q] EXCEPT !.rivalRan = TRUE]
          ELSE proc[q]]
    /\ Going
    /\ UNCHANGED <<upLive, diskSum, holds, ops>>

\* pre_hooks, _execute_sql, (apply) _run_verify, conn.commit(); or the handler.
RunScript(p) ==
    /\ proc[p].pc = "script"
    /\ \E o \in ExecOutcomes(Head(proc[p].plan), Dir(proc[p].kind), env.includes) :
        LET m == Head(proc[p].plan) IN
        /\ upLive' = ScriptCommit(upLive, m, Dir(proc[p].kind), o)
        /\ IF o \in {"ok", "verify_failed_silent"}
           THEN /\ proc' = [proc EXCEPT ![p].pc = "post",
                               ![p].vok = IF o = "ok" THEN "true" ELSE "false"]
                /\ rows' = rows
           ELSE /\ rows' = FailureAtom(rows, m, proc[p].sums[m])
                /\ proc' = [proc EXCEPT ![p] =
                               Raised(@, AfterFailure(Tail(proc[p].plan)), o)]
    /\ Going
    /\ UNCHANGED <<diskSum, holds, ops>>

\* The status _apply_single / _revert_single record after a clean run.
TerminalStatusApplied(d) == "applied"

TerminalStatus(d) == IF d = "up" THEN "applied" ELSE "reverted"

\* post_hooks, then upsert the terminal status, commit; or the handler.
Finish(p) ==
    /\ proc[p].pc = "post"
    /\ LET m == Head(proc[p].plan)
           d == Dir(proc[p].kind)
           rest == Tail(proc[p].plan) IN
       \E hookOk \in BOOLEAN :
        IF hookOk
        THEN /\ rows' = SetStatus(rows, m, proc[p].sums[m], TerminalStatus(d),
                           "set", "set", "set",
                           IF d = "up" THEN proc[p].vok ELSE "null", "set")
             /\ proc' = [proc EXCEPT ![p] =
                            IF rest = <<>> THEN Leaving(@, @.res)
                            ELSE [@ EXCEPT !.pc = "mark", !.plan = rest, !.vok = "null"]]
        ELSE /\ rows' = FailureAtom(rows, m, proc[p].sums[m])
             /\ proc' = [proc EXCEPT ![p] =
                            Raised(@, AfterFailure(rest), "post_hook_failed")]
    /\ Going
    /\ UNCHANGED <<upLive, diskSum, holds, ops>>

\* Leaving the with blocks: pg_advisory_unlock, conn.close(); the error the
\* executor raised, if any, reaches cli.main.
Exit(p) ==
    /\ proc[p].pc = "exit"
    /\ holds' = [holds EXCEPT ![p] = HeldAfterExit(@, proc[p].res # "none")]
    /\ End(p, proc[p].kind, IF proc[p].res = "none" THEN "ok" ELSE proc[p].res,
           proc[p].wrote)
    /\ UNCHANGED <<rows, upLive, diskSum, ops>>

\* ---------------------------------------------------------------- recovery operations
\* repair(): the accept flag, _find_migration, rowcount of the UPDATE.
RepairOutcome(states, id, accept) ==
    IF ~accept THEN "AcceptRequired"
    ELSE IF id \notin Mig THEN "NotOnDisk"
    ELSE IF ~Exists(states, id) THEN "NotFound"
    ELSE "ok"

\* retry(): the checks before the first write.  "repair": go on to repair the
\* checksum; "reset": go on to the reset.
RetryOutcomeNoShortcut(states, cks, id, force, accept_checksum) ==
    IF id \notin Mig THEN "NotOnDisk"
    ELSE IF ~Exists(states, id) THEN "NotTracked"
    ELSE IF states[id].status = "running" /\ ~force THEN "InProgress"
    ELSE IF states[id].checksum # cks[id]
    THEN IF ~accept_checksum THEN "ChecksumMismatch" ELSE "repair"
    ELSE "reset"

RetryOutcome(states, cks, id, force, accept_checksum) ==
    IF id \notin Mig THEN "NotOnDisk"
    ELSE IF ~Exists(states, id) THEN "NotTracked"
    ELSE IF states[id].status = "applied" THEN "ok"
    ELSE IF states[id].status = "running" /\ ~force THEN "InProgress"
    ELSE IF states[id].checksum # cks[id]
    THEN IF ~accept_checksum THEN "ChecksumMismatch" ELSE "repair"
    ELSE "reset"

\* repair --accept-checksum id: build the runner, _ensure, db.repair_checksum,
\* commit.
Repair(p) ==
    /\ CanStart(p)
    /\ \E id \in Ids :
        \E r \in {RepairOutcome(rows, id, accept) : accept \in BOOLEAN} :
            /\ rows' = IF r = "ok" THEN RepairChecksum(rows, id, diskSum[id]) ELSE rows
            /\ Ended(p, "repair", id, r, r = "ok")
    /\ ops' = ops + 1
    /\ UNCHANGED <<upLive, diskSum, holds>>

\* retry --id id: _find_migration, fetch_states, the checks before the first write.
Retry(p) ==
    /\ CanStart(p)
    /\ \E id \in Ids :
        \E r \in {RetryOutcome(rows, diskSum, id, force, accept_checksum) :
                    force \in BOOLEAN, accept_checksum \in BOOLEAN} :
            IF r \in {"repair", "reset"}
            THEN /\ proc' = [proc EXCEPT ![p] = [Entered(p, "retry") EXCEPT
                        !.pc = IF r = "repair" THEN "retry_repair" ELSE "retry_reset",
                        !.arg = id]]
                 /\ Going
            ELSE Ended(p, "retry", id, r, FALSE)
    /\ ops' = ops + 1
    /\ UNCHANGED <<rows, upLive, diskSum, holds>>

\* retry: db.repair_checksum, commit.
RetryRepair(p) ==
    /\ proc[p].pc = "retry_repair"
    /\ LET id == proc[p].arg IN
       IF ~Exists(rows, id)
       THEN End(p, "retry", "NotFound", proc[p].wrote) /\ rows' = rows
       ELSE /\ rows' = RepairChecksum(rows, id, proc[p].sums[id])
            /\ proc' = [proc EXCEPT ![p].pc = "retry_reset", ![p].wrote = TRUE]
            /\ Going
    /\ UNCHANGED <<upLive, diskSum, holds, ops>>

\* retry: _confirm_action, db.update_status_fields(reverted), commit; then
\* _skip_next_confirmation = True before the call of apply.
RetryReset(p) ==
    /\ proc[p].pc = "retry_reset"
    /\ LET id == proc[p].arg IN
       \E g \in GateOutcomes(proc[p].skip) :
        IF g.err # "none" THEN End(p, "retry", g.err, proc[p].wrote) /\ rows' = rows
        ELSE IF ~Exists(rows, id)
        THEN End(p, "retry", "NotFound", proc[p].wrote) /\ rows' = rows
        ELSE /\ rows' = UpdateStatusFields(rows, id, "reverted", "null", "null",
                                           "null", "null")
             /\ proc' = [proc EXCEPT ![p].pc = "retry_apply", ![p].wrote = TRUE,
                                     ![p].prevSkip = g.skip, ![p].skip = TRUE,
                                     ![p].conf = g.how]
             /\ Going
    /\ UNCHANGED <<upLive, diskSum, holds, ops>>

\* retry: self.apply(target=migration_id) on a new connection.
RetryApply(p) ==
    /\ proc[p].pc = "retry_apply"
    /\ \E o \in ApplyOutcomes(rows, proc[p].sums, proc[p].skip, proc[p].arg) :
        Planned(p, proc[p], o)
    /\ UNCHANGED <<rows, upLive, diskSum, holds, ops>>

\* reset-failed --id id: fetch_states, the row must exist, _confirm_action.
ResetFailed(p) ==
    /\ CanStart(p)
    /\ \E id \in Ids :
        \E g \in {IF id \notin Mig \/ ~Exists(rows, id)
                    THEN [err |-> "NotTracked", skip |-> proc[p].skip, how |-> "none"] ELSE x :
                    x \in GateOutcomes(proc[p].skip)} :
            IF g.err = "none"
            THEN /\ proc' = [proc EXCEPT ![p] = [Entered(p, "reset_failed") EXCEPT
                                  !.pc = "reset_write", !.arg = id, !.skip = g.skip,
                                  !.conf = g.how]]
                 /\ Going
            ELSE Ended(p, "reset_failed", id, g.err, FALSE)
    /\ ops' = ops + 1
    /\ UNCHANGED <<rows, upLive, diskSum, holds>>

\* The row after reset-failed without --delete.
ResetFieldsKeepsStamp(tbl, id) ==
    UpdateStatusFields(tbl, id, "reverted", tbl[id].applied_at, tbl[id].applied_by,
                       tbl[id].execution_ms, tbl[id].verify_ok)

ResetFields(tbl, id) ==
    UpdateStatusFields(tbl, id, "reverted", "null", "null", "null", "null")

\* reset-failed: db.delete_state, or db.update_status_fields(reverted); commit.
\* out: the line printed at the end ("removed" or "reset").
ResetWrite(p) ==
    /\ proc[p].pc = "reset_write"
    /\ LET id == proc[p].arg IN
       \E delete \in BOOLEAN :
        IF delete
        THEN /\ rows' = DeleteState(rows, id)
             /\ Returned(p, "reset_failed", id, "ok", TRUE, <<"removed">>)
        ELSE IF ~Exists(rows, id)
        THEN End(p, "reset_failed", "NotFound", FALSE) /\ rows' = rows
        ELSE /\ rows' = ResetFields(rows, id)
             /\ Returned(p, "reset_failed", id, "ok", TRUE, <<"reset">>)
    /\ UNCHANGED <<upLive, diskSum, holds, ops>>

\* ---------------------------------------------------------------- read-only operations
\* The loop of plan_up from definition m on.  No checksum, status or tag check:
\* whatever is not applied is pending.
PlanUpNoBreak(m, pending, already, states, target) ==
    [err |-> IF target # NoTarget /\ target \notin Mig THEN "TargetNotFound" ELSE "ok",
     pending |-> SelectSeq([i \in 1..NumMig |-> i], LAMBDA x : states[x].status # "applied"),
     already |-> SelectSeq([i \in 1..NumMig |-> i], LAMBDA x : states[x].status = "applied")]

RECURSIVE PlanUpScan(_, _, _, _, _)
PlanUpScan(m, pending, already, states, target) ==
    IF m > NumMig
    THEN [err |-> IF target # NoTarget THEN "TargetNotFound" ELSE "ok",
          pending |-> pending, already |-> already]
    ELSE LET applied == states[m].status = "applied"
             pend == IF applied THEN pending ELSE Append(pending, m)
             alr == IF applied THEN Append(already, m) ELSE already
         IN IF target # NoTarget /\ m = target
            THEN [err |-> "ok", pending |-> pend, already |-> alr]
            ELSE PlanUpScan(m + 1, pend, alr, states, target)

\* plan [--to target]: build the runner, fetch_states, plan_up.
Plan(p) ==
    /\ CanStart(p)
    /\ \E target \in {NoTarget} \cup Ids :
        LET r == PlanUpScan(1, <<>>, <<>>, rows, target) IN
        Returned(p, "plan", target, r.err, FALSE,
                 IF r.err = "ok" THEN r.pending ELSE <<>>)
    /\ ops' = ops + 1
    /\ UNCHANGED <<rows, upLive, diskSum, holds>>

\* status: build the runner, fetch_states, return definitions and states.
Status(p) ==
    /\ CanStart(p)
    /\ Ended(p, "status", NoTarget, "ok", FALSE)
    /\ ops' = ops + 1
    /\ UNCHANGED <<rows, upLive, diskSum, holds>>

\* _select_verifications.  hasVerify: the definitions with a verify.sql file.
SelectVerifications(states, latest, id, hasVerify) ==
    IF latest
    THEN IF AppliedIds(states) = {}
         THEN [err |-> "NothingApplied", targets |-> <<>>]
         ELSE LET top == CHOOSE m \in AppliedIds(states) :
                            \A x \in AppliedIds(states) : x <= m
              IN [err |-> "none", targets |-> IF top \in hasVerify THEN <<top>> ELSE <<>>]
    ELSE IF id # NoTarget
    THEN IF id \notin Mig THEN [err |-> "NotOnDisk", targets |-> <<>>]
         ELSE IF id \notin hasVerify THEN [err |-> "NoVerifySql", targets |-> <<>>]
         ELSE [err |-> "none", targets |-> <<id>>]
    ELSE [err |-> "none",
          targets |-> SelectSeq([i \in 1..NumMig |-> i], LAMBDA x : x \in hasVerify)]

\* What a verify.sql does when it is run: "ok", "blank" (the file is empty:
\* _run_verify returns False without a statement), "error" (the statement
\* raises, which aborts the transaction of the connection).
VerifyRuns == [Mig -> {"ok", "blank", "error"}]

\* Does the statement of _run_verify succeed on a connection on which the
\* earlier statements of the same verify() call ended as in before?
VerifyStatement(before) == \A j \in 1..Len(before) : before[j] # "error"

\* The loop of verify(): every _run_verify on the same connection, nothing
\* committed or rolled back in between.  In an aborted transaction every
\* further statement raises.  sql: what the migration's verify.sql does when
\* it is run on a clean connection.
VerifyResults(targets, runs) ==
    [i \in 1..Len(targets) |->
        [id |-> targets[i],
         sql |-> runs[targets[i]],
         ok |-> /\ runs[targets[i]] = "ok"
                /\ VerifyStatement([j \in 1..(i - 1) |-> runs[targets[j]]])]]

VerifyOutcomes(states) ==
    {LET sel == SelectVerifications(states, latest, id, hasVerify)
         arg == IF latest THEN LatestArg ELSE id IN
     IF sel.err # "none" THEN [arg |-> arg, res |-> sel.err, out |-> <<>>]
     ELSE IF sel.targets = <<>> THEN [arg |-> arg, res |-> "NothingToVerify", out |-> <<>>]
     ELSE [arg |-> arg, res |-> "ok", out |-> VerifyResults(sel.targets, runs)] :
        latest \in BOOLEAN, id \in {NoTarget} \cup Ids, hasVerify \in SUBSET Mig,
        runs \in VerifyRuns}

\* What verify() leaves in the bookkeeping table: the results are returned to
\* the caller only, no set_status call, and the connection is closed without
\* a commit.
VerifyRecordsOk(tbl, out) ==
    [m \in Mig |->
        IF Exists(tbl, m) /\ \E i \in 1..Len(out) : out[i].id = m
        THEN [tbl[m] EXCEPT !.verify_ok =
                 IF \E i \in 1..Len(out) : out[i].id = m /\ out[i].ok
                 THEN "true" ELSE "false"]
        ELSE tbl[m]]

VerifyRecords(tbl, out) == tbl

\* verify [--latest | --id id]: fetch_states, select, run each verify.sql;
\* the connection is closed without a commit.
Verify(p) ==
    /\ CanStart(p)
    /\ \E o \in VerifyOutcomes(rows) :
        /\ Returned(p, "verify", o.arg, o.res, FALSE, o.out)
        /\ rows' = VerifyRecords(rows, o.out)
    /\ ops' = ops + 1
    /\ UNCHANGED <<upLive, diskSum, holds>>

\* ---------------------------------------------------------------- environment
\* An operator edits the up.sql of migration m.
EditUp(m) ==
    /\ diskSum[m] = 0
    /\ Cardinality({x \in Mig : diskSum[x] # 0}) < MaxEdits
    /\ diskSum' = [diskSum EXCEPT ![m] = 1]
    /\ Going
    /\ UNCHANGED <<rows, upLive, holds, proc, ops>>

\* The process dies (kill, power loss): its session ends, which releases the
\* session-scoped advisory lock; nothing uncommitted survives.
Crash(p) ==
    /\ Active(p)
    /\ holds' = [holds EXCEPT ![p] = FALSE]
    /\ End(p, proc[p].kind, "crashed", proc[p].wrote)
    /\ UNCHANGED <<rows, upLive, diskSum, ops>>

\* "except Exception" in _apply_single / _revert_single: does the handler
\* catch what was raised?  KeyboardInterrupt derives from BaseException.
HandlerCatches(exc) == exc # "KeyboardInterrupt"

\* The operator presses Ctrl-C while the script of the head migration runs:
\* the driver cancels the statement and KeyboardInterrupt is raised out of
\* cursor.execute.  Caught: the failure atom.  Not caught: it leaves the with
\* blocks (unlock, close; the open transaction is discarded) and cli.main.
Interrupt(p) ==
    /\ proc[p].pc = "script"
    /\ LET m == Head(proc[p].plan) IN
       IF HandlerCatches("KeyboardInterrupt")
       THEN /\ rows' = FailureAtom(rows, m, proc[p].sums[m])
            /\ proc' = [proc EXCEPT ![p] =
                           Raised(@, AfterFailure(Tail(proc[p].plan)), "interrupted")]
       ELSE /\ rows' = rows
            /\ proc' = [proc EXCEPT ![p] = Leaving(@, "interrupted")]
    /\ Going
    /\ UNCHANGED <<upLive, diskSum, holds, ops>>

\* ---------------------------------------------------------------- specifications
Step(p) ==
    \/ Apply(p)
    \/ Rollback(p)
    \/ TryLock(p)
    \/ MarkRunning(p)
    \/ RunScript(p)
    \/ Finish(p)
    \/ Exit(p)
    \/ Repair(p)
    \/ Retry(p)
    \/ RetryRepair(p)
    \/ RetryReset(p)
    \/ RetryApply(p)
    \/ ResetFailed(p)
    \/ ResetWrite(p)

Next ==
    \/ \E p \in Procs : Step(p)
    \/ \E m \in Mig : EditUp(m)

\* Every operation runs to its end.
Spec == Init /\ [][Next]_vars

NextCrash ==
    \/ Next
    \/ \E p \in Procs : Crash(p)

\* Processes may also die at any point of an operation.
CrashSpec == Init /\ [][NextCrash]_vars

NextEngine ==
    \E p \in Procs :
        \/ Apply(p)
        \/ Rollback(p)
        \/ TryLock(p)
        \/ MarkRunning(p)
        \/ RunScript(p)
        \/ Finish(p)
        \/ Exit(p)

\* Only up and down are run, each to its end, and no file is edited.
EngineSpec == Init /\ [][NextEngine]_vars

\* The steps inside the "with db.advisory_lock" block and its exit.
InBlock(p) == MarkRunning(p) \/ RunScript(p) \/ Finish(p) \/ Exit(p)

\* A process that has entered the block keeps running: none of its steps
\* waits for another process.
FairEngineSpec == EngineSpec /\ \A p \in Procs : WF_vars(InBlock(p))

NextRead ==
    \E p \in Procs :
        \/ Apply(p)
        \/ Rollback(p)
        \/ TryLock(p)
        \/ MarkRunning(p)
        \/ RunScript(p)
        \/ Finish(p)
        \/ Exit(p)
        \/ Status(p)
        \/ Plan(p)
        \/ Verify(p)

\* up and down together with the read-only commands status, plan and verify.
ReadSpec == Init /\ [][NextRead]_vars

\* The definitions and the profile stay as they are on disk at the start.
\* Apply and rollback with an operator who may interrupt a running script.
NextInterrupt ==
    \E p \in Procs :
        \/ Apply(p)
        \/ Rollback(p)
        \/ TryLock(p)
        \/ MarkRunning(p)
        \/ RunScript(p)
        \/ Finish(p)
        \/ Exit(p)
        \/ Interrupt(p)

InterruptSpec == Init /\ [][NextInterrupt]_vars

\* up and down by processes that may die at any point.
NextEngineCrash ==
    \E p \in Procs :
        \/ Apply(p)
        \/ Rollback(p)
        \/ TryLock(p)
        \/ MarkRunning(p)
        \/ RunScript(p)
        \/ Finish(p)
        \/ Exit(p)
        \/ Crash(p)

EngineCrashSpec == Init /\ [][NextEngineCrash]_vars

MetaInit == Start /\ env \in FixedEnvs

MetaSpec == MetaInit /\ [][NextEngine]_vars

\* Every operation that asks for confirmation, under profiles with
\* confirm_prod set.
NextProd ==
    \/ \E m \in Mig : EditUp(m)
    \/ \E p \in Procs :
        \/ Apply(p)
        \/ Rollback(p)
        \/ TryLock(p)
        \/ MarkRunning(p)
        \/ RunScript(p)
        \/ Finish(p)
        \/ Exit(p)
        \/ Retry(p)
        \/ RetryRepair(p)
        \/ RetryReset(p)
        \/ RetryApply(p)
        \/ ResetFailed(p)
        \/ ResetWrite(p)

ProdInit == Start /\ env = [FreeEnv EXCEPT !.prod = TRUE]

ProdSpec == ProdInit /\ [][NextProd]_vars

\* One operator working alone: an operation starts when no other is running.
\* The definitions on disk stay as they are and the history is kept.
Alone == \A q \in Procs : ~Active(q)

LoggedEnvs == {[e EXCEPT !.log = TRUE] : e \in FixedEnvs}

NextAlone ==
    \E p \in Procs :
        \/ Alone /\ Apply(p)
        \/ Alone /\ Rollback(p)
        \/ TryLock(p)
        \/ MarkRunning(p)
        \/ RunScript(p)
        \/ Finish(p)
        \/ Exit(p)

AloneInit == Start /\ env \in LoggedEnvs

AloneSpec == AloneInit /\ [][NextAlone]_vars

\* One operator at a time runs up, with @include lines in the up.sql of
\* migration 1 and in the files it names.
IncludeEnvs ==
    {[FreeEnv EXCEPT !.fixed = TRUE,
                     !.includes = [f \in Files |-> IF f = 1 THEN a ELSE b[f]]] :
        a \in IncludeLines(MaxIncludes), b \in [Files -> IncludeLines(MaxIncludes - 1)]}

NextInclude ==
    \E p \in Procs :
        \/ Alone /\ Apply(p)
        \/ TryLock(p)
        \/ MarkRunning(p)
        \/ RunScript(p)
        \/ Finish(p)
        \/ Exit(p)

IncludeInit == Start /\ env \in IncludeEnvs

IncludeSpec == IncludeInit /\ [][NextInclude]_vars

\* ---------------------------------------------------------------- properties
\* The step is a step of process p.
Acts(p) == proc'[p].pc # proc[p].pc \/ last'.proc = p

InExecutor(p) == proc[p].pc \in {"mark", "script", "post"}

Quiet == \A p \in Procs : ~Active(p)

\* C1: at most one process holds the advisory lock at any time, and a process
\* is at the executor steps of a migration (mark running, run script, mark
\* terminal) only while it holds the lock.
C1_LockExclusive ==
    /\ \A p, q \in Procs : holds[p] /\ holds[q] => p = q
    /\ \A p \in Procs : InExecutor(p) => holds[p]

\* A process is in the middle of a script while another has just been refused
\* the lock.
C1_Witness ==
    \E p, q \in Procs :
        /\ p # q
        /\ holds[p] /\ proc[p].pc = "script"
        /\ last.proc = q /\ last.res = "LockHeld"

\* C2: of two applies that run at the same time exactly one executes
\* migrations: an apply that ran at the same time as an apply that executed a
\* migration does not get the lock and writes nothing.
C2_OnlyOneApplies ==
    \A p \in Procs :
        proc[p].kind = "apply" /\ proc[p].rivalRan => ~holds[p] /\ ~proc[p].wrote

\* C3: no process writes a bookkeeping row while a different process holds
\* the advisory lock.
C3_WritersExcluded ==
    [][\A p \in Procs :
         Acts(p) /\ rows' # rows => \A q \in Procs \ {p} : ~holds[q]]_vars

\* C4: between operations, the migrations whose row is applied are exactly
\* those whose up.sql is committed more recently than any committed down.sql.
C4_AppliedIsLive == Quiet => AppliedIds(rows) = upLive

\* The status changes apply and rollback are to make on a row.
MonotonePath(d) ==
    IF d = "up"
    THEN {<<"absent", "running">>, <<"reverted", "running">>,
          <<"running", "applied">>, <<"running", "failed">>}
    ELSE {<<"applied", "running">>,
          <<"running", "reverted">>, <<"running", "failed">>}

\* C5: every status write of the executor to the row of the migration it
\* executes follows the monotone path of its direction.
C5_MonotoneStatus ==
    [][\A p \in Procs :
         InExecutor(p) /\ Acts(p) /\ rows' # rows =>
            LET m == Head(proc[p].plan) IN
            <<rows[m].status, rows'[m].status>> \in MonotonePath(Dir(proc[p].kind))]_vars

\* The migrations the plan of b covers: the revert set of a rollback, the
\* definitions up to the last pending one of an apply.
Covered(b) ==
    IF b.kind = "rollback" THEN SeqIds(b.plan)
    ELSE {m \in Mig : m <= b.plan[Len(b.plan)]}

Drifted(m) == rows[m].status = "applied" /\ rows[m].checksum # diskSum[m]

\* C6: planning of an apply or a rollback that covers an applied migration
\* whose stored checksum differs from the disk checksum fails: the operation
\* does not get past planning.
C6_DriftStopsPlanning ==
    [][\A p \in Procs :
         proc[p].pc = "idle" /\ proc'[p].pc = "lock" =>
            \A m \in Covered(proc'[p]) : ~Drifted(m)]_vars

\* C7: while a row has status running (and nobody is executing: the row was
\* left by a process that died), no apply and no rollback gets past planning.
C7_RunningStopsPlanning ==
    [][\A p \in Procs :
         /\ proc[p].pc = "idle" /\ proc'[p].pc = "lock"
         /\ \A q \in Procs : ~holds[q]
         => \A m \in Mig : rows[m].status # "running"]_vars

\* C8: when up.sql raises during apply, the step that handles it leaves the
\* migration's row with status failed and verify_ok false and commits none
\* of the script's changes.
C8_UpFailureAtom ==
    [][\A p \in Procs :
         /\ proc[p].pc = "script" /\ Dir(proc[p].kind) = "up"
         /\ proc'[p].res = "sql_failed" /\ proc[p].res = "none"
         => LET m == Head(proc[p].plan) IN
            /\ rows'[m].status = "failed"
            /\ rows'[m].verify_ok = "false"
            /\ upLive' = upLive]_vars

\* An apply is on its way out after its up.sql raised, the row is failed.
C8_Witness ==
    \E p \in Procs, m \in Mig :
        /\ proc[p].pc = "exit" /\ proc[p].kind = "apply" /\ proc[p].res = "sql_failed"
        /\ rows[m].status = "failed" /\ rows[m].verify_ok = "false"
        /\ m \notin upLive

\* C9: once the executor has raised for a migration, the operation writes no
\* row and runs no script any more; its next step ends it with that error.
C9_AbortsRemainder ==
    [][\A p \in Procs :
         proc[p].res \in ExecErrors /\ Acts(p) =>
            /\ rows' = rows
            /\ upLive' = upLive
            /\ last' = [proc |-> p, kind |-> proc[p].kind, arg |-> proc[p].arg,
                        res |-> proc[p].res, wrote |-> proc[p].wrote,
                        out |-> <<>>]]_vars

\* An operation is on its way out with the executor's error, and the
\* migrations that came after the failed one in its plan have no row.
C9_Witness ==
    \E p \in Procs :
        /\ proc[p].pc = "exit" /\ proc[p].res \in ExecErrors
        /\ proc[p].plan # <<>>
        /\ \A m \in SeqIds(proc[p].plan) : rows[m].status = "absent"
        /\ \E m \in Mig : rows[m].status = "failed"

\* C10: a process that holds the lock eventually releases it, whether the
\* operation succeeds or fails, and a process whose operation has ended does
\* not hold it: the lock is held only inside the with block.
C10_LockReleased ==
    /\ [](\A p \in Procs : holds[p] => proc[p].pc \in {"mark", "script", "post", "exit"})
    /\ \A p \in Procs : holds[p] ~> ~holds[p]

\* An operation that held the lock has just ended with the executor's error.
C10_Witness ==
    \E p \in Procs :
        /\ last.proc = p /\ last.res \in ExecErrors /\ last.wrote
        /\ ~holds[p]

\* Process p takes the planning step of command k in this step.
Plans(p, k) ==
    /\ proc[p].pc = "idle"
    /\ \/ last'.proc = p /\ last'.kind = k
       \/ proc'[p].pc = "lock" /\ proc'[p].kind = k

\* The --to / --id it was called with.
ArgOf(p) == IF last'.proc = p THEN last'.arg ELSE proc'[p].arg

\* The applied migrations from the highest one down to target t, when t is
\* applied: the set a rollback to t would revert.
RevertSet(t) ==
    IF t \in Mig /\ rows[t].status = "applied"
    THEN {m \in Mig : m >= t /\ rows[m].status = "applied"}
    ELSE {}

FreshDb == \A m \in Mig : rows[m].status = "absent"

Prefix(t) == [i \in 1..t |-> i]

\* C12: on a table with no rows, plan_up(target) returns as pending the
\* definitions up to and including target and fails when target names no
\* definition; the plan apply(target) goes on with is the same prefix, and
\* apply fails as well when target names no definition.
C12_FreshPlanIsPrefix ==
    [][\A p \in Procs :
         FreshDb /\ ArgOf(p) # NoTarget =>
            /\ Plans(p, "plan") =>
                  IF ArgOf(p) \in Mig
                  THEN last'.res = "ok" /\ last'.out = Prefix(ArgOf(p))
                  ELSE last'.res # "ok"
            /\ Plans(p, "apply") =>
                  IF proc'[p].pc = "lock"
                  THEN ArgOf(p) \in Mig /\ proc'[p].plan = Prefix(ArgOf(p))
                  ELSE last'.res # "ok"]_vars

\* plan --to 1 has just returned the proper prefix <<1>> on an empty table.
C12_Witness ==
    /\ FreshDb
    /\ last.kind = "plan" /\ last.arg = 1 /\ last.res = "ok"
    /\ last.out = <<1>> /\ NumMig > 1

Ascending(s) == \A i, j \in 1..Len(s) : i < j => s[i] < s[j]

\* C13: the plan an apply executes is in strictly ascending id order and,
\* with a target, ends at the target, otherwise the apply ends in planning
\* with an error and nothing written; a migration is marked running only
\* at the head of the plan, and the operation moves on to the next migration
\* in the very step that commits the terminal marker of the one before.
C13_AscendingOneByOne ==
    /\ [](\A p \in Procs :
            proc[p].kind = "apply" /\ proc[p].pc \in {"lock", "mark", "script", "post"} =>
               /\ Ascending(proc[p].plan)
               /\ proc[p].arg # NoTarget => proc[p].plan[Len(proc[p].plan)] = proc[p].arg)
    /\ [][\A p \in Procs :
            /\ Plans(p, "apply") /\ ArgOf(p) # NoTarget /\ last'.proc = p =>
                  last'.res # "ok" /\ ~last'.wrote /\ rows' = rows
            /\ proc[p].kind = "apply" /\ Acts(p) /\ proc[p].pc = "mark" =>
                  /\ proc'[p].pc = "script" /\ proc'[p].plan = proc[p].plan
                  /\ rows'[Head(proc[p].plan)].status = "running"
            /\ proc[p].kind = "apply" /\ Acts(p) /\ proc'[p].pc = "mark" /\ holds[p] =>
                  /\ proc[p].pc = "post"
                  /\ rows'[Head(proc[p].plan)].status = "applied"
                  /\ proc'[p].plan = Tail(proc[p].plan)]_vars

\* An apply to target 2 has committed migration 1 as applied and is about to
\* mark migration 2 running.
C13_Witness ==
    \E p \in Procs :
        /\ proc[p].kind = "apply" /\ proc[p].pc = "mark" /\ proc[p].arg = 2
        /\ proc[p].plan = <<2>> /\ proc[p].wrote
        /\ rows[1].status = "applied" /\ rows[2].status = "absent"

Descending(s) == \A i, j \in 1..Len(s) : i < j => s[i] > s[j]

\* C14: a rollback to target plans exactly the migrations whose row is
\* applied from the highest applied id down to and including target, in
\* strictly descending order, and runs their down.sql in that order, one at
\* the head of the plan at a time; when the row of target is absent or not
\* applied it ends with TargetNotApplied and no row is modified.
C14_RollbackRange ==
    /\ [](\A p \in Procs :
            proc[p].kind = "rollback" /\ proc[p].pc \in {"lock", "mark", "script", "post"} =>
               /\ Descending(proc[p].plan)
               /\ proc[p].plan[Len(proc[p].plan)] = proc[p].arg)
    /\ [][\A p \in Procs :
            /\ Plans(p, "rollback") =>
                  IF RevertSet(ArgOf(p)) = {}
                  THEN /\ last'.proc = p /\ last'.res = "TargetNotApplied"
                       /\ ~last'.wrote /\ rows' = rows
                  ELSE proc'[p].pc = "lock" =>
                          /\ SeqIds(proc'[p].plan) = RevertSet(ArgOf(p))
                          /\ Len(proc'[p].plan) = Cardinality(RevertSet(ArgOf(p)))
            /\ proc[p].kind = "rollback" /\ Acts(p) /\ upLive' # upLive =>
                  upLive' = upLive \ {Head(proc[p].plan)}
            /\ proc[p].kind = "rollback" /\ Acts(p) /\ proc'[p].pc = "mark" /\ holds[p] =>
                  /\ proc[p].pc = "post"
                  /\ rows'[Head(proc[p].plan)].status = "reverted"
                  /\ proc'[p].plan = Tail(proc[p].plan)]_vars

\* A rollback to migration 1 has reverted migration 2 and is about to mark
\* migration 1 running.
C14_Witness ==
    \E p \in Procs :
        /\ proc[p].kind = "rollback" /\ proc[p].pc = "mark" /\ proc[p].arg = 1
        /\ proc[p].plan = <<1>> /\ proc[p].wrote
        /\ rows[2].status = "reverted" /\ rows[1].status = "applied"

OkRun(k, x) == [kind |-> k, arg |-> x, res |-> "ok"]

\* C15: from an empty database, apply to X then rollback to X leave every
\* migration before X applied and X reverted, and the planner accepts a
\* following apply to X; when that apply succeeds too, X is applied again.
C15_RoundTrip ==
    \A x \in Mig :
        /\ Quiet /\ hist = <<OkRun("apply", x), OkRun("rollback", x)>> =>
              /\ \A m \in Mig : m < x => rows[m].status = "applied"
              /\ rows[x].status = "reverted"
              /\ PendingForApply(rows, diskSum, x, env.tagBad, env.requires) =
                    [err |-> "none", plan |-> <<x>>]
        /\ Quiet /\ hist = <<OkRun("apply", x), OkRun("rollback", x), OkRun("apply", x)>> =>
              /\ \A m \in Mig : m <= x => rows[m].status = "applied"

\* The round trip on migration 2 and the apply after it have all succeeded.
C15_Witness ==
    /\ Quiet
    /\ hist = <<OkRun("apply", 2), OkRun("rollback", 2), OkRun("apply", 2)>>
    /\ rows[1].status = "applied" /\ rows[2].status = "applied"

\* C16: apply planning goes on only when every id a pending migration
\* requires is already applied or strictly earlier in the plan, so whenever
\* the up.sql of a migration starts, every migration it requires is applied.
C16_RequiresApplied ==
    /\ [][\A p \in Procs :
            Plans(p, "apply") /\ proc'[p].pc = "lock" =>
               \A i \in 1..Len(proc'[p].plan) :
                   \A r \in env.requires[proc'[p].plan[i]] :
                       \/ r \in AppliedIds(rows)
                       \/ \E j \in 1..(i - 1) : proc'[p].plan[j] = r]_vars
    /\ [](\A p \in Procs :
            proc[p].kind = "apply" /\ proc[p].pc = "script" =>
               \A r \in env.requires[Head(proc[p].plan)] : r \in AppliedIds(rows))

C18_RepairOnlyChecksum ==
    /\ [](\A id \in Ids : /\ RepairOutcome(rows, id, FALSE) # "ok"
                          /\ id \notin Mig \/ ~Exists(rows, id) =>
                                RepairOutcome(rows, id, TRUE) # "ok")
    /\ [][\A p \in Procs :
            last'.proc = p /\ last'.kind = "repair" =>
               /\ upLive' = upLive /\ holds' = holds /\ diskSum' = diskSum
               /\ IF last'.res = "ok"
                  THEN /\ last'.arg \in Mig /\ Exists(rows, last'.arg)
                       /\ rows' = [rows EXCEPT ![last'.arg].checksum = diskSum[last'.arg]]
                       /\ last.kind = "repair" /\ last.res = "ok" /\ last.arg = last'.arg =>
                             rows' = rows
                  ELSE rows' = rows]_vars

\* A repair of migration 1, applied and edited since, has just succeeded.
C18_Witness ==
    /\ last.kind = "repair" /\ last.res = "ok" /\ last.arg = 1
    /\ rows[1].status = "applied" /\ rows[1].checksum # 0
    /\ rows[1].checksum = diskSum[1]

ReadOnlyKinds == {"status", "plan", "verify"}

\* C19: status, plan and verify never take the advisory lock and leave every
\* bookkeeping row (and the schema) as it is, in any state, also while
\* another process is in the middle of an apply or a rollback.
C19_ReadOnly ==
    /\ [](\A p \in Procs : holds[p] \/ Active(p) => proc[p].kind \notin ReadOnlyKinds)
    /\ [][\A p \in Procs :
            last'.proc = p /\ last'.kind \in ReadOnlyKinds =>
               /\ rows' = rows /\ upLive' = upLive /\ holds' = holds
               /\ ~last'.wrote
               /\ \A q \in Procs \ {p} : proc'[q] = proc[q]]_vars

\* A verify has returned results for migration 1, applied, while another
\* process holds the lock and runs the script of migration 2.
C19_Witness ==
    /\ last.kind = "verify" /\ last.res = "ok" /\ Len(last.out) > 0
    /\ \E q \in Procs \ {last.proc} :
          /\ holds[q] /\ proc[q].pc = "script"
          /\ rows[Head(proc[q].plan)].status = "running"
          /\ \E m \in Mig : rows[m].status = "applied" /\ last.out[1].id = m

\* C20: a user interrupt that arrives while the script of a migration is
\* executing goes through the failure atom: nothing of the script is
\* committed and the row of the migration is committed failed, so an
\* interrupted operation leaves no row of its own running.
C20_InterruptFailureAtom ==
    [][\A p \in Procs :
          proc[p].pc = "script" /\ proc'[p].res = "interrupted" =>
             /\ rows'[Head(proc[p].plan)].status = "failed"
             /\ upLive' = upLive]_vars

\* The failed rows an apply to target t has in its range.
FailedInRange(t) == {m \in Mig : rows[m].status = "failed" /\ (t = NoTarget \/ m <= t)}

GateErrors == {"ProdConfirmationRequired", "ConfirmationRejected", "UserAborted"}

\* The nested apply of retry is not confirmed again (the flag set by retry is
\* consumed by its gate), and a retry whose last migration finishes cleanly
\* leaves the retried migration applied.
RetryOnceThenApplied ==
    \A p \in Procs :
        /\ proc[p].pc = "retry_apply" /\ Acts(p) =>
              /\ proc[p].skip
              /\ last'.proc = p => last'.res \notin GateErrors
              /\ proc'[p].pc = "lock" => ~proc'[p].skip
        /\ proc[p].kind = "retry" /\ proc[p].pc = "post" /\ proc'[p].pc = "exit"
              /\ proc'[p].res = "none" =>
              rows'[proc[p].arg].status = "applied"

\* C21 as stated: once a row is failed, every apply whose range covers it
\* ends with PreviousFailure and executes nothing; a retry of it asks the
\* operator once and ends with the migration applied.
C21_FailedBlocksApply ==
    [][/\ \A p \in Procs :
             Plans(p, "apply") /\ FailedInRange(ArgOf(p)) # {} =>
                /\ last'.proc = p /\ last'.res = "PreviousFailure"
                /\ rows' = rows /\ upLive' = upLive
       /\ RetryOnceThenApplied]_vars

\* C21: once a row is failed, every apply whose range covers it ends in
\* planning with PreviousFailure, ChecksumMismatch, InProgress or
\* TagNotAllowed and executes nothing; it is PreviousFailure when every
\* earlier migration is applied and no stored checksum up to the failed
\* migration differs from the file; a retry of it asks the operator once
\* and ends with the migration applied.
C21_FailedBlocksApplyByPlanning ==
    [][/\ \A p \in Procs :
             Plans(p, "apply") /\ FailedInRange(ArgOf(p)) # {} =>
                /\ last'.proc = p /\ ~last'.wrote
                /\ last'.res \in {"PreviousFailure", "ChecksumMismatch", "InProgress",
                                  "TagNotAllowed"}
                /\ rows' = rows /\ upLive' = upLive
                /\ \A m \in FailedInRange(ArgOf(p)) :
                      /\ \A n \in 1..(m - 1) : rows[n].status = "applied"
                      /\ \A n \in 1..m : rows[n].checksum = diskSum[n]
                      => last'.res = "PreviousFailure"
       /\ RetryOnceThenApplied]_vars

\* A retry of migration 1, failed before and edited since, has ended well
\* and the migration is applied with the checksum of the edited file.
C21_Witness ==
    /\ last.kind = "retry" /\ last.res = "ok" /\ last.wrote /\ last.arg = 1
    /\ rows[1].status = "applied" /\ rows[1].checksum # 0 /\ 1 \in upLive

\* Process p starts a retry in this step.
StartsRetry(p) ==
    /\ proc[p].pc = "idle"
    /\ \/ last'.proc = p /\ last'.kind = "retry"
       \/ proc'[p].kind = "retry"

\* The retry of process p ends in this step without having reached its reset.
EndsBeforeReset(p) ==
    /\ proc[p].pc \in {"idle", "retry_repair", "retry_reset"}
    /\ last'.proc = p /\ last'.kind = "retry"

\* C22 as stated: a retry that does not reach its reset step has left the
\* bookkeeping table exactly as it was before the call.
C22_RetryNoResetNoWrite ==
    [][\A p \in Procs : EndsBeforeReset(p) => ~last'.wrote /\ rows' = rows]_vars

\* C22: a retry without a row ends with NotTracked and a retry of an applied
\* migration ends at once, both without a write; InProgress and
\* ChecksumMismatch are raised before any write; the only write a retry
\* makes before its reset is the repair of the stored checksum of the
\* retried row, which is committed before the gate is asked, so a retry the
\* gate refuses has changed nothing but, possibly, that checksum.
C22_RetryNoResetOnlyRepair ==
    [][\A p \in Procs :
          /\ StartsRetry(p) /\ ArgOf(p) \in Mig /\ ~Exists(rows, ArgOf(p)) =>
                last'.proc = p /\ last'.res = "NotTracked"
          /\ StartsRetry(p) /\ ArgOf(p) \in Mig /\ rows[ArgOf(p)].status = "applied" =>
                last'.proc = p /\ last'.res = "ok"
          /\ EndsBeforeReset(p) =>
                /\ rows' = rows /\ upLive' = upLive
                /\ last'.wrote => last'.res \in GateErrors \cup {"NotFound"}
                /\ proc[p].pc = "idle" => ~last'.wrote
          /\ proc[p].pc = "retry_repair" /\ Acts(p) =>
                /\ upLive' = upLive
                /\ \/ rows' = rows
                   \/ rows' = [rows EXCEPT ![proc[p].arg].checksum = proc[p].sums[proc[p].arg]]]_vars

\* A retry of the failed migration 1 has been refused at the gate and has
\* written nothing.
C22_Witness ==
    /\ last.kind = "retry" /\ last.res \in GateErrors /\ ~last.wrote /\ last.arg = 1
    /\ rows[1].status = "failed"

\* C23: the skip-next-confirmation flag of an engine is not set between
\* operations: when retry has returned or raised, on whatever path, the flag
\* is what it was before (not set), so the gate of no later apply, rollback
\* or reset-failed on that engine passes because of the flag.
C23_SkipFlagRestored ==
    /\ [](\A p \in Procs : proc[p].pc = "idle" => ~proc[p].skip)
    /\ [][\A p \in Procs :
            /\ last'.proc = p /\ last'.kind = "retry" => proc'[p].skip = proc[p].prevSkip
            /\ proc[p].pc = "idle" /\ proc'[p].pc \in {"lock", "reset_write"} =>
                  ~proc[p].skip /\ ~proc'[p].skip]_vars

\* A retry of migration 2 has reset the row and its nested apply has failed
\* in planning, with the flag still set, on the failed row of migration 1.
C23_Witness ==
    /\ last.kind = "retry" /\ last.arg = 2 /\ last.wrote /\ last.res = "PreviousFailure"
    /\ rows[1].status = "failed" /\ rows[2].status = "reverted"
    /\ ~proc[last.proc].skip

\* The gate was passed by --confirm-prod or by typing the schema name.
Confirmed(b) == b.conf \in {"flag", "typed"}

\* C24: with confirm_prod set in the profile, no apply, rollback, retry reset
\* or reset-failed writes a row or runs a script unless --confirm-prod was
\* given or the operator typed the schema name; unattended without the flag
\* the gate raises ProdConfirmationRequired; apply and rollback pass the gate
\* before they take the lock and before their first write.
C24_ProdGate ==
    /\ [](/\ \A co \in BOOLEAN, ni \in BOOLEAN, ia \in BOOLEAN, an \in Answers :
               LET g == ConfirmAction(FALSE, TRUE, co, ni, ia, an) IN
               /\ g.err = "none" <=> co \/ (~ni /\ ia /\ an = "schema")
               /\ ~co /\ (ni \/ ~ia) => g.err = "ProdConfirmationRequired"
          /\ \A p \in Procs :
               /\ proc[p].pc \in {"lock", "mark", "script", "post", "reset_write",
                                  "retry_apply"} => Confirmed(proc[p])
               /\ holds[p] /\ proc[p].pc # "exit" => Confirmed(proc[p])
               /\ proc[p].pc = "lock" /\ proc[p].kind \in {"apply", "rollback"} =>
                     ~proc[p].wrote)
    /\ [][\A p \in Procs :
            Acts(p) /\ proc[p].pc # "retry_repair"
            /\ (rows' # rows \/ upLive' # upLive) =>
               Confirmed(proc[p]) \/ Confirmed(proc'[p])]_vars

\* Under a profile with confirm_prod, an apply whose operator typed the
\* schema name is running the script of migration 1.
C24_Witness ==
    /\ env.prod
    /\ \E p \in Procs :
          /\ proc[p].kind = "apply" /\ proc[p].pc = "script" /\ proc[p].conf = "typed"
          /\ holds[p] /\ rows[1].status = "running"

\* C25: verify --latest, when some migration is applied, returns normally:
\* the result for the highest applied migration, or an empty result when
\* that migration has no verify.sql; a verify.sql that fails is an entry
\* with ok false, never an error of the command.
C25_VerifyLatestReturns ==
    [][last'.kind = "verify" /\ last'.arg = LatestArg /\ AppliedIds(rows) # {} =>
          /\ last'.res = "ok"
          /\ Len(last'.out) <= 1
          /\ \A i \in 1..Len(last'.out) :
                /\ last'.out[i].id \in AppliedIds(rows)
                /\ \A x \in AppliedIds(rows) : x <= last'.out[i].id]_vars

\* C26: reset-failed without --delete, confirmed, on a row that exists sets
\* the row reverted with applied_at, applied_by, execution_ms and verify_ok
\* cleared, keeps its checksum and every other row, and runs no script; when
\* the row does not exist the command fails and changes nothing.
C26_ResetFailedKeepsRow ==
    [][\A p \in Procs :
          last'.proc = p /\ last'.kind = "reset_failed" /\ last'.out # <<"removed">> =>
             LET id == last'.arg IN
             /\ upLive' = upLive
             /\ IF id \in Mig /\ Exists(rows, id)
                THEN IF last'.res = "ok"
                     THEN /\ proc[p].pc = "reset_write"
                          /\ rows'[id].status = "reverted"
                          /\ rows'[id].applied_at = "null" /\ rows'[id].applied_by = "null"
                          /\ rows'[id].execution_ms = "null" /\ rows'[id].verify_ok = "null"
                          /\ rows'[id].checksum = rows[id].checksum
                          /\ \A m \in Mig \ {id} : rows'[m] = rows[m]
                     ELSE last'.res \in GateErrors /\ rows' = rows
                ELSE last'.res \in {"NotTracked", "NotFound"} /\ rows' = rows]_vars

\* A reset-failed without --delete has reset the failed row of migration 1,
\* whose checksum is not the one on disk.
C26_Witness ==
    /\ last.kind = "reset_failed" /\ last.res = "ok" /\ last.out = <<"reset">>
    /\ last.arg = 1 /\ rows[1].status = "reverted" /\ rows[1].verify_ok = "null"
    /\ rows[1].checksum # diskSum[1]

\* The migration ids that have a row.
Tracked(tbl) == {m \in Mig : Exists(tbl, m)}

BetweenMarkers(p) ==
    proc[p].kind \in {"apply", "rollback"} /\ proc[p].pc \in {"script", "post"}

\* C28: the running marker is committed before the script starts (the step
\* that commits it runs nothing of the script), and from that commit to the
\* commit of the terminal marker the durable row is running, so a process
\* that dies there leaves the row running, for apply and for rollback.
C28_DiesRunning ==
    /\ [](\A p \in Procs :
            BetweenMarkers(p) => rows[Head(proc[p].plan)].status = "running")
    /\ [][\A p \in Procs :
            /\ proc[p].pc = "mark" /\ proc'[p].pc = "script" =>
                  upLive' = upLive /\ rows'[Head(proc[p].plan)].status = "running"
            /\ BetweenMarkers(p) /\ last'.proc = p /\ last'.res = "crashed" =>
                  rows'[Head(proc[p].plan)].status = "running"]_vars

\* A rollback has died after its down.sql was committed and before the
\* reverted marker: the row of migration 1 is left running.
C28_Witness ==
    /\ last.kind = "rollback" /\ last.res = "crashed" /\ last.wrote
    /\ rows[1].status = "running" /\ 1 \notin upLive
    /\ \A p \in Procs : ~Active(p)

\* C29: every row that apply leaves applied has verify_ok true; a verify.sql
\* that errors, whatever its message, sends the migration through the
\* failure atom: nothing of up.sql is committed and the row is failed.
C29_AppliedMeansVerified ==
    /\ [](\A m \in Mig : rows[m].status = "applied" => rows[m].verify_ok = "true")
    /\ [][\A p \in Procs :
            proc[p].kind = "apply" /\ proc[p].pc = "script" /\ proc'[p].pc = "post" =>
               proc'[p].vok = "true"]_vars

\* C30: apply never executes a stale plan: when a process that holds the
\* lock marks a migration running for apply, the durable status of that
\* migration is absent or reverted, so no up.sql is committed twice without
\* a down.sql in between.
C30_NoStaleApply ==
    [][\A p \in Procs :
          /\ proc[p].kind = "apply" /\ proc[p].pc = "mark" /\ proc'[p].pc = "script" =>
                /\ holds[p]
                /\ rows[Head(proc[p].plan)].status \in {"absent", "reverted"}
          /\ proc[p].kind = "apply" /\ proc[p].pc = "script" /\ proc'[p].pc = "post"
             /\ proc'[p].vok = "true" =>
                Head(proc[p].plan) \notin upLive]_vars

\* C31: whenever apply leaves the row of a migration failed, nothing of its
\* up.sql is committed, and whenever rollback leaves a row failed, nothing of
\* its down.sql is committed (the changes of up.sql are still there), whatever
\* failed: script, verify.sql, pre-hook or post-hook.
C31_FailedCommitsNothing ==
    [][\A p \in Procs :
          InExecutor(p) /\ Acts(p) /\ rows'[Head(proc[p].plan)].status = "failed" =>
             IF proc[p].kind = "apply"
             THEN Head(proc[p].plan) \notin upLive'
             ELSE Head(proc[p].plan) \in upLive']_vars

\* C32: in one verify call over several migrations the result of each
\* migration is the outcome of its own verify.sql: ok exactly when its own
\* verify.sql runs cleanly, whatever the verify.sql of an earlier migration
\* in the call did.
C32_VerifyIndependent ==
    [][last'.kind = "verify" /\ last'.res = "ok" =>
          \A i \in 1..Len(last'.out) :
             last'.out[i].ok <=> last'.out[i].sql = "ok"]_vars

\* The files the @include lines of file f name.
Targets(inc, f) == {inc[f][i] : i \in DOMAIN inc[f]} \cap Files

RECURSIVE ReachWithin(_, _, _)
ReachWithin(S, inc, n) ==
    IF n = 0 THEN S
    ELSE ReachWithin(S \cup UNION {Targets(inc, f) : f \in S}, inc, n - 1)

\* The include graph reachable from root has a cycle.
HasCycle(root, inc) ==
    \E f \in ReachWithin({root}, inc, NumFiles) :
        f \in ReachWithin(Targets(inc, f), inc, NumFiles)

\* Every @include line reachable from root names a file that exists.
AllFound(root, inc) ==
    \A f \in ReachWithin({root}, inc, NumFiles) :
        \A i \in DOMAIN inc[f] : inc[f][i] # Missing

\* C33: the expansion of a script fails with IncludeCycle if the include
\* graph reachable from it has a cycle, and only then: a file included twice
\* along acyclic paths (diamond, repeated include) is expanded.
C33_IncludeCycleIffCycle ==
    [][\A p \in Procs :
          /\ proc[p].kind = "apply" /\ proc[p].pc = "script" /\ proc'[p].pc # "script"
          /\ Head(proc[p].plan) = 1
          => /\ proc'[p].res = "IncludeCycle" => HasCycle(1, env.includes)
             /\ HasCycle(1, env.includes) /\ AllFound(1, env.includes) =>
                   proc'[p].res \in {"IncludeCycle", "pre_hook_failed"}]_vars

\* The command process p is running or has just ended.
KindOf(p) == IF last'.proc = p THEN last'.kind ELSE proc[p].kind

\* C34: apply and rollback never change the stored checksum of a row whose
\* stored checksum differs from the checksum on disk (that is left to repair
\* and to retry with accept_checksum), so drift is never silently erased.
C34_DriftNotErased ==
    [][\A p \in Procs : \A m \in Mig :
          /\ Acts(p) /\ KindOf(p) \in {"apply", "rollback"}
          /\ Exists(rows, m) /\ rows[m].checksum # diskSum[m]
          => rows'[m].checksum = rows[m].checksum]_vars

\* C35: reset-failed changes only rows whose status is failed or running:
\* it never turns an applied row into reverted and never removes it, so no
\* migration stops being recorded as applied without a run of its down.sql.
C35_ResetOnlyFailed ==
    [][\A p \in Procs : \A m \in Mig :
          last'.proc = p /\ last'.kind = "reset_failed" /\ rows'[m] # rows[m] =>
             rows[m].status \in {"failed", "running"}]_vars

====
